---- MODULE Spec2Model ----
(***************************************************************************)
(* The ShareExtension patch scripts of the Clipboard repository            *)
(*   fix_build_config.py, complete_share_extension.py,                     *)
(*   add_share_extension.py, fix_share_extension.py,                       *)
(*   Clipboard/create_working_project.py                                   *)
(* as a state machine over the text of project.pbxproj and of its backup.  *)
(*                                                                         *)
(* The text of a file is a sequence of tokens.  A token stands for a       *)
(* literal chunk of the file; the chunks are cut so that every pattern of  *)
(* the scripts (regular expression or literal) begins and ends on a chunk  *)
(* boundary:                                                               *)
(*   <<"/","",0>>  <<"*","",0>>  <<"sp","",0>>   the characters / * space   *)
(*   <<"nl","",0>>          a run of newline / tab characters              *)
(*   <<"Begin",S,0>>        the text " Begin S section"                    *)
(*   <<"End",S,0>>          the text " End S section"                      *)
(*   <<"id",h,0>>           the 24 hex digit identifier h of the file      *)
(*   <<"id","uuid4",n>>     the n-th identifier made by generate_uuid()    *)
(*   <<"cmt",c,0>>          the text " /* c */"                            *)
(*   <<"= {","",0>> <<"}","",0>> <<";","",0>> <<",","",0>>                  *)
(*   <<"word",w,0>>         the text w (no brace and no slash in it)       *)
(***************************************************************************)
EXTENDS Integers, Sequences, FiniteSets, TLC

VARIABLES file, backup, pc, script, content, pre, ret, wrote, steps,
          uuids, ubase, runs, written, hist

vars == <<file, backup, pc, script, content, pre, ret, wrote, steps,
          uuids, ubase, runs, written, hist>>

\* ------------------------------------------------------------------ bounds
MaxRuns == 2
WriteChunks == 2

\* ------------------------------------------------------------------ tokens
Tok(k, s, n) == <<k, s, n>>
SL == Tok("/", "", 0)
ST == Tok("*", "", 0)
SP == Tok("sp", "", 0)
NL == Tok("nl", "", 0)
OPEN == Tok("= {", "", 0)
CLOSE == Tok("}", "", 0)
SEMI == Tok(";", "", 0)
COMMA == Tok(",", "", 0)
BeginTok(S) == Tok("Begin", S, 0)
EndTok(S) == Tok("End", S, 0)
Id(h) == Tok("id", h, 0)
Cmt(c) == Tok("cmt", c, 0)
W(w) == Tok("word", w, 0)

\* The literal marker comments "/* Begin S section */" and "/* End S section */".
LitBegin(S) == <<SL, ST, BeginTok(S), SP, ST, SL>>
LitEnd(S) == <<SL, ST, EndTok(S), SP, ST, SL>>

\* The object identifiers the scripts name.
MAIN_TARGET == Id("016547732E62440700C46AD8")
TESTS_TARGET == Id("016547872E62440800C46AD8")
BROKEN_TARGET == Id("60D3E1B9FE0944D0B8BB9668")
CLIPBOARD_APP == Id("016547742E62440700C46AD8")

\* generate_uuid(): 24 hex digits of a fresh uuid4; the n-th one made.
generate_uuid(n) == Tok("id", "uuid4", n)

\* The chunks that hold the substring "ShareExtension".
HasShareExtensionText(t) ==
    t[2] \in { "ShareExtension", "ShareExtension.appex",
               "Build configuration list for PBXNativeTarget ShareExtension",
               "name = ShareExtension;", "productName = ShareExtension;",
               "ShareExtensionIcon.png in Resources", "ShareExtensionIcon.png",
               "INFOPLIST_FILE = ShareExtension/Info.plist; PRODUCT_BUNDLE_IDENTIFIER = com.tamaraosseiran.Clipboard.ShareExtension;",
               "path = ShareExtension; sourceTree = <group>;" }

\* ----------------------------------------------------------- text helpers
\* The least index of a set of indices, 0 when the set is empty.
MinOf(S) == IF S = {} THEN 0 ELSE CHOOSE i \in S : \A j \in S : i <= j

OccursAt(t, p, i) ==
    /\ i >= 1
    /\ i + Len(p) - 1 <= Len(t)
    /\ \A k \in 1..Len(p) : t[i + k - 1] = p[k]

\* str.find: the first occurrence of p in t at or after from, 0 when none.
Find(t, p, from) ==
    MinOf({ i \in from..(Len(t) - Len(p) + 1) : OccursAt(t, p, i) })

Occurs(t, p) == Find(t, p, 1) # 0

\* str.count: the number of non-overlapping occurrences of p in t.
RECURSIVE CountFrom(_, _, _)
CountFrom(t, p, from) ==
    LET i == Find(t, p, from)
    IN  IF i = 0 THEN 0 ELSE 1 + CountFrom(t, p, i + Len(p))

Count(t, p) == CountFrom(t, p, 1)

\* str.replace(old, new): every non-overlapping occurrence, left to right.
RECURSIVE Replace(_, _, _)
Replace(t, old, new) ==
    LET i == Find(t, old, 1)
    IN  IF i = 0 THEN t
        ELSE SubSeq(t, 1, i - 1) \o new
             \o Replace(SubSeq(t, i + Len(old), Len(t)), old, new)

\* `in`: a chunk of the text holds "ShareExtension".
ContainsShareExtension(t) == \E i \in 1..Len(t) : HasShareExtensionText(t[i])

\* ------------------------------------------- the unescaped marker patterns
\* The scripts give the marker comments to re unescaped, so
\*   /* End S section */   is the expression   (/)* End S section( )*/
\* zero or more "/", the text " End S section", zero or more spaces, one "/".
\* MarkerStop(t, i, tok): with the word tok at i, the index of the "/" that
\* ends a match of the expression, 0 when there is no match through i.
RECURSIVE SkipSP(_, _)
SkipSP(t, i) == IF i <= Len(t) /\ t[i] = SP THEN SkipSP(t, i + 1) ELSE i

MarkerStop(t, i, tok) ==
    IF i < 1 \/ i > Len(t) THEN 0
    ELSE IF t[i] # tok THEN 0
    ELSE LET j == SkipSP(t, i + 1)
         IN  IF j > Len(t) THEN 0 ELSE IF t[j] = SL THEN j ELSE 0

\* The leading (/)*: the match of the word at i starts at the first "/" of the
\* run of "/" that ends just before i (at i when there is none), not before lo.
RECURSIVE SlashRunStart(_, _, _)
SlashRunStart(t, i, lo) ==
    IF i > lo /\ t[i - 1] = SL THEN SlashRunStart(t, i - 1, lo) ELSE i

\* re.search(r'(/* Begin S section */.*?/* End S section */)', t, re.DOTALL):
\* group(1) of the leftmost match, <<>> when there is no match.
SectionSearch(t, S) ==
    LET b == MinOf({ i \in 1..Len(t) : MarkerStop(t, i, BeginTok(S)) # 0 })
        e == IF b = 0 THEN 0
             ELSE MinOf({ i \in (MarkerStop(t, b, BeginTok(S)) + 1)..Len(t) :
                          MarkerStop(t, i, EndTok(S)) # 0 })
    IN  IF b = 0 \/ e = 0 THEN <<>>
        ELSE SubSeq(t, SlashRunStart(t, b, 1), MarkerStop(t, e, EndTok(S)))

\* The section insertion of fix_build_config, complete_share_extension and
\* add_share_extension:
\*   m = re.search(section pattern, content)
\*   if m: section = m.group(1)
\*         new = section.replace("/* End S section */", f"{frag}\n/* End S section */")
\*         content = content.replace(section, new)
\* A patcher that skips a section already holding the fragment.
InsertBeforeEnd_once(t, S, frag) ==
    LET section == SectionSearch(t, S)
        new_section == Replace(section, LitEnd(S), frag \o <<NL>> \o LitEnd(S))
    IN  IF section = <<>> \/ Occurs(section, frag) THEN t
        ELSE Replace(t, section, new_section)

\* A patcher that appends the fragment when it finds no section.
InsertBeforeEnd_append(t, S, frag) ==
    LET section == SectionSearch(t, S)
        new_section == Replace(section, LitEnd(S), frag \o <<NL>> \o LitEnd(S))
    IN  IF section = <<>> THEN t \o frag ELSE Replace(t, section, new_section)

InsertBeforeEnd(t, S, frag) ==
    LET section == SectionSearch(t, S)
        new_section == Replace(section, LitEnd(S), frag \o <<NL>> \o LitEnd(S))
    IN  IF section = <<>> THEN t ELSE Replace(t, section, new_section)

\* The section insertion of create_working_project:
\*   content = re.sub(r'(/* End S section */)', frag + r'\n\1', content)
RECURSIVE SubEndMarker(_, _, _)
SubEndMarker(t, S, frag) ==
    LET e == MinOf({ i \in 1..Len(t) : MarkerStop(t, i, EndTok(S)) # 0 })
    IN  IF e = 0 THEN t
        ELSE LET s == SlashRunStart(t, e, 1)
                 stop == MarkerStop(t, e, EndTok(S))
             IN  SubSeq(t, 1, s - 1) \o frag \o <<NL>> \o SubSeq(t, s, stop)
                 \o SubEndMarker(SubSeq(t, stop + 1, Len(t)), S, frag)

\* ----------------------------------------------------- the escaped patterns
IsSpace(x) == x = SP \/ x = NL

\* \s*: the index after the run of whitespace that starts at i.
RECURSIVE SkipSpace(_, _)
SkipSpace(t, i) == IF i <= Len(t) /\ IsSpace(t[i]) THEN SkipSpace(t, i + 1) ELSE i

\* h /\* c \*/ = \{[^}]*\};   at i: the index of the ";" that ends it, else 0.
BlockEnd(t, i, h, c) ==
    IF ~OccursAt(t, <<h, Cmt(c), OPEN>>, i) THEN 0
    ELSE LET j == MinOf({ k \in (i + 3)..Len(t) : t[k] = CLOSE })
         IN  IF j = 0 \/ j + 1 > Len(t) THEN 0
             ELSE IF t[j + 1] = SEMI THEN j + 1 ELSE 0

\* main_target_pattern =
\*  (016547732E62440700C46AD8 /\* Clipboard \*/ = \{[^}]*\};\s*)
\*  (016547872E62440800C46AD8 /\* ClipboardTests \*/)
\* at i: the index of the last chunk of group(1), 0 when it does not match at i.
MainTargetGroup1End(t, i) ==
    LET semi == BlockEnd(t, i, MAIN_TARGET, "Clipboard")
        w == SkipSpace(t, semi + 1)
    IN  IF semi = 0 THEN 0
        ELSE IF OccursAt(t, <<TESTS_TARGET, Cmt("ClipboardTests")>>, w)
             THEN w - 1 ELSE 0

\* re.search(main_target_pattern, t, re.DOTALL): where the leftmost match starts.
MainTargetSearch(t) == MinOf({ i \in 1..Len(t) : MainTargetGroup1End(t, i) # 0 })

\* targets_pattern =
\*  (targets = \(\s*016547732E62440700C46AD8 /\* Clipboard \*/,)
\* at i: the index of the "," that ends group(1), 0 when it does not match at i.
TargetsListEnd(t, i) ==
    IF i < 1 \/ i > Len(t) THEN 0
    ELSE IF t[i] # W("targets = (") THEN 0
    ELSE LET w == SkipSpace(t, i + 1)
         IN  IF OccursAt(t, <<MAIN_TARGET, Cmt("Clipboard"), COMMA>>, w)
             THEN w + 2 ELSE 0

TargetsListSearch(t) == MinOf({ i \in 1..Len(t) : TargetsListEnd(t, i) # 0 })

\* re.sub(main_target_pattern, r'\1' + target + r'\n\t\t\2', t, flags=re.DOTALL)
RECURSIVE SubMainTarget(_, _)
SubMainTarget(t, target) ==
    LET i == MainTargetSearch(t)
    IN  IF i = 0 THEN t
        ELSE LET g1 == MainTargetGroup1End(t, i)
             IN  SubSeq(t, 1, g1) \o target \o <<NL>> \o SubSeq(t, g1 + 1, g1 + 2)
                 \o SubMainTarget(SubSeq(t, g1 + 3, Len(t)), target)

\* re.sub(targets_pattern, r'\1\n\t\t\t' + uuid + r' /* ShareExtension */,', t)
RECURSIVE SubTargetsList(_, _)
SubTargetsList(t, entry) ==
    LET i == TargetsListSearch(t)
    IN  IF i = 0 THEN t
        ELSE LET e == TargetsListEnd(t, i)
             IN  SubSeq(t, 1, e) \o entry
                 \o SubTargetsList(SubSeq(t, e + 1, Len(t)), entry)

\* re.sub(r'60D3E1B9FE0944D0B8BB9668 /\* ShareExtension \*/ = \{[^}]*\};\s*', '', t)
RECURSIVE RemoveBrokenBlocks(_)
RemoveBrokenBlocks(t) ==
    LET i == MinOf({ k \in 1..Len(t) :
                     BlockEnd(t, k, BROKEN_TARGET, "ShareExtension") # 0 })
    IN  IF i = 0 THEN t
        ELSE LET after == SkipSpace(t, BlockEnd(t, i, BROKEN_TARGET, "ShareExtension") + 1)
             IN  SubSeq(t, 1, i - 1) \o RemoveBrokenBlocks(SubSeq(t, after, Len(t)))

\* re.sub(r'60D3E1B9FE0944D0B8BB9668 /\* ShareExtension \*/,?\s*', '', t)
RECURSIVE RemoveBrokenRefs(_)
RemoveBrokenRefs(t) ==
    LET ref == <<BROKEN_TARGET, Cmt("ShareExtension")>>
        i == Find(t, ref, 1)
    IN  IF i = 0 THEN t
        ELSE LET c == IF i + 2 <= Len(t) /\ t[i + 2] = COMMA THEN i + 3 ELSE i + 2
                 after == SkipSpace(t, c)
             IN  SubSeq(t, 1, i - 1) \o RemoveBrokenRefs(SubSeq(t, after, Len(t)))

\* The pattern of add_share_extension, matched with re.DOTALL:
\*   Clipboard.*=.*{.*isa = PBXNativeTarget;.*name = Clipboard;
\*   .*productName = Clipboard;.*productReference = ([A-F0-9]{24});
\* The chunks that hold "Clipboard", "=" and "{" (in " = {" the "=" comes first).
HasClipboardText(x) ==
    x[2] \in { "Clipboard", "Clipboard.app", "ClipboardTests",
               "name = Clipboard;", "productName = Clipboard;",
               "name = ClipboardTests; productName = ClipboardTests;",
               "Build configuration list for PBXNativeTarget Clipboard",
               "INFOPLIST_FILE = ShareExtension/Info.plist; PRODUCT_BUNDLE_IDENTIFIER = com.tamaraosseiran.Clipboard.ShareExtension;" }

\* Every word chunk of the model is "key = value" text.
HasEquals(x) == x = OPEN \/ x[1] = "word"

HasBrace(x) ==
    \/ x = OPEN
    \/ x[2] \in { "archiveVersion = 1; objectVersion = 77; objects = {",
                  "isa = XCBuildConfiguration; buildSettings = {",
                  "isa = PBXNativeTarget; attributes = {" }

\* The index of the identifier captured by group(1), 0 when there is no match.
\* Every .* is greedy, so the last "productReference = <id>;" that follows the
\* other pieces is the one captured.
MainProductSearch(t) ==
    LET n == Len(t)
        p1 == MinOf({ i \in 1..n : HasClipboardText(t[i]) })
        p2 == IF p1 = 0 THEN 0 ELSE MinOf({ i \in (p1 + 1)..n : HasEquals(t[i]) })
        p3 == IF p2 = 0 THEN 0 ELSE MinOf({ i \in p2..n : HasBrace(t[i]) })
        p4 == IF p3 = 0 THEN 0
              ELSE MinOf({ i \in (p3 + 1)..n : t[i] = W("isa = PBXNativeTarget;") })
        p5 == IF p4 = 0 THEN 0
              ELSE MinOf({ i \in (p4 + 1)..n : t[i] = W("name = Clipboard;") })
        p6 == IF p5 = 0 THEN 0
              ELSE MinOf({ i \in (p5 + 1)..n : t[i] = W("productName = Clipboard;") })
        refs == IF p6 = 0 THEN {}
                ELSE { i \in (p6 + 1)..(n - 2) :
                         /\ t[i] = W("productReference =")
                         /\ t[i + 1][1] = "id"
                         /\ t[i + 2] = SEMI }
    IN  IF refs = {} THEN 0
        ELSE 1 + (CHOOSE i \in refs : \A j \in refs : j <= i)

\* ------------------------------------------------------------ the fragments
BCL_SE == Cmt("Build configuration list for PBXNativeTarget ShareExtension")
SETTINGS ==
    W("INFOPLIST_FILE = ShareExtension/Info.plist; PRODUCT_BUNDLE_IDENTIFIER = com.tamaraosseiran.Clipboard.ShareExtension;")

\* A PBXNativeTarget block ("\n\t\t" first, "};" last).
TargetBlock(head, cmt, cfg, cfgcmt, src, fw, res, names, prodref, ptype) ==
    <<NL, head, Cmt(cmt), OPEN, W("isa = PBXNativeTarget;"),
      W("buildConfigurationList ="), cfg, cfgcmt, SEMI,
      W("buildPhases = ("), NL, src, Cmt("Sources"), COMMA,
      NL, fw, Cmt("Frameworks"), COMMA, NL, res, Cmt("Resources"), COMMA,
      W("); buildRules = ( ); dependencies = ( );")>>
    \o names \o <<W("productReference =")>> \o prodref
    \o <<SEMI, W(ptype), CLOSE, SEMI>>

ShareExtensionNames == <<W("name = ShareExtension;"), W("productName = ShareExtension;")>>
ClipboardNames == <<W("name = Clipboard;"), W("productName = Clipboard;")>>
AppExtensionType == "productType = com.apple.product-type.app-extension;"
ApplicationType == "productType = com.apple.product-type.application;"

ShareExtensionTarget(target, cfg, src, fw, res, prodref) ==
    TargetBlock(target, "ShareExtension", cfg, BCL_SE, src, fw, res,
                ShareExtensionNames, prodref, AppExtensionType)

SourcesPhase(src, swift) ==
    <<NL, src, Cmt("Sources"), OPEN,
      W("isa = PBXSourcesBuildPhase; buildActionMask = 2147483647; files = ("),
      NL, swift, Cmt("ShareViewController.swift in Sources"), COMMA,
      W("); runOnlyForDeploymentPostprocessing = 0;"), CLOSE, SEMI>>

FrameworksPhase(fw) ==
    <<NL, fw, Cmt("Frameworks"), OPEN,
      W("isa = PBXFrameworksBuildPhase; buildActionMask = 2147483647; files = ( ); runOnlyForDeploymentPostprocessing = 0;"),
      CLOSE, SEMI>>

ResourcesPhase(res, story, icon) ==
    <<NL, res, Cmt("Resources"), OPEN,
      W("isa = PBXResourcesBuildPhase; buildActionMask = 2147483647; files = ("),
      NL, story, Cmt("MainInterface.storyboard in Resources"), COMMA,
      NL, icon, Cmt("ShareExtensionIcon.png in Resources"), COMMA,
      W("); runOnlyForDeploymentPostprocessing = 0;"), CLOSE, SEMI>>

FileRef(id, name, attrs) == <<NL, id, Cmt(name), OPEN, W(attrs), CLOSE, SEMI>>

FileRefs(prod, swift, story, icon, plist) ==
    FileRef(CLIPBOARD_APP, "Clipboard.app",
            "isa = PBXFileReference; explicitFileType = wrapper.application; sourceTree = BUILT_PRODUCTS_DIR;")
    \o FileRef(prod, "ShareExtension.appex",
            "isa = PBXFileReference; explicitFileType = wrapper.app-extension; sourceTree = BUILT_PRODUCTS_DIR;")
    \o FileRef(swift, "ShareViewController.swift",
            "isa = PBXFileReference; lastKnownFileType = sourcecode.swift; sourceTree = <group>;")
    \o FileRef(story, "MainInterface.storyboard",
            "isa = PBXFileReference; lastKnownFileType = file.storyboard; sourceTree = <group>;")
    \o FileRef(icon, "ShareExtensionIcon.png",
            "isa = PBXFileReference; lastKnownFileType = image.png; sourceTree = <group>;")
    \o FileRef(plist, "Info.plist",
            "isa = PBXFileReference; lastKnownFileType = text.plist.xml; sourceTree = <group>;")

BuildConfig(id, name, nameword) ==
    <<NL, id, Cmt(name), OPEN, W("isa = XCBuildConfiguration; buildSettings = {"),
      SETTINGS, CLOSE, SEMI, W(nameword), CLOSE, SEMI>>

DebugConfig(id) == BuildConfig(id, "Debug", "name = Debug;")
ReleaseConfig(id) == BuildConfig(id, "Release", "name = Release;")

ConfigList(id, dbg, rel) ==
    <<NL, id, BCL_SE, OPEN, W("isa = XCConfigurationList; buildConfigurations = ("),
      NL, dbg, Cmt("Debug"), COMMA, NL, rel, Cmt("Release"), COMMA,
      W("); defaultConfigurationIsVisible = 0; defaultConfigurationName = Release;"),
      CLOSE, SEMI>>

\* "\n\t\t\t{target_uuid} /* ShareExtension */,"
TargetsEntry(target) == <<NL, target, Cmt("ShareExtension"), COMMA>>

\* One section insertion of a run: the section, the fragment, the text it was
\* applied to and the text it gave.
Step(S, frag, inp, out) == [sec |-> S, frag |-> frag, inp |-> inp, out |-> out]

\* What a run computes: its return value, whether it goes on to open the file
\* for writing, the text it writes, its section insertions, the uuids it drew.
Outcome(r, w, out, st, used) ==
    [ret |-> r, write |-> w, out |-> out, steps |-> st, used |-> used]

\* -------------------------------------------------------------- the scripts
\* fix_build_config(): the fixed identifiers of its three blocks.
FBC_LIST == Id("5EC26EDF031149CC90C5184B")
FBC_DEBUG == Id("5EC26EDE031149CC90C5184B")
FBC_RELEASE == Id("5EC26EDD031149CC90C5184B")
build_config_list == ConfigList(FBC_LIST, FBC_DEBUG, FBC_RELEASE)
share_extension_configs == DebugConfig(FBC_DEBUG) \o <<NL>> \o ReleaseConfig(FBC_RELEASE)

fix_build_config(t) ==
    LET c1 == InsertBeforeEnd(t, "XCConfigurationList", build_config_list)
        c2 == InsertBeforeEnd(c1, "XCBuildConfiguration", share_extension_configs)
    IN  Outcome("True", TRUE, c2,
                << Step("XCConfigurationList", build_config_list, t, c1),
                   Step("XCBuildConfiguration", share_extension_configs, c1, c2) >>,
                0)

\* complete_share_extension(): u uuids were drawn before the run.  The uuid of
\* the Release block is drawn inside the f-string, when the section matched.
CSE_Phases(u) ==
    SourcesPhase(generate_uuid(u + 2), generate_uuid(u + 6))
    \o FrameworksPhase(generate_uuid(u + 3))
    \o ResourcesPhase(generate_uuid(u + 4), generate_uuid(u + 7), generate_uuid(u + 8))

CSE_Refs(u) ==
    FileRefs(generate_uuid(u + 5), generate_uuid(u + 6), generate_uuid(u + 7),
             generate_uuid(u + 8), generate_uuid(u + 9))

CSE_Configs(u) ==
    DebugConfig(generate_uuid(u + 1)) \o ReleaseConfig(generate_uuid(u + 10))

complete_share_extension(t, u) ==
    LET c1 == InsertBeforeEnd(t, "PBXSourcesBuildPhase", CSE_Phases(u))
        c2 == InsertBeforeEnd(c1, "PBXFileReference", CSE_Refs(u))
        c3 == InsertBeforeEnd(c2, "XCBuildConfiguration", CSE_Configs(u))
        matched == SectionSearch(c2, "XCBuildConfiguration") # <<>>
    IN  Outcome("True", TRUE, c3,
                << Step("PBXSourcesBuildPhase", CSE_Phases(u), t, c1),
                   Step("PBXFileReference", CSE_Refs(u), c1, c2),
                   Step("XCBuildConfiguration", CSE_Configs(u), c2, c3) >>,
                IF matched THEN 10 ELSE 9)

\* add_share_extension_target(project_file)
ASE_Targets(u, main_target_uuid) ==
    TargetBlock(MAIN_TARGET, "Clipboard", Id("0165478A2E62440800C46AD8"),
                Cmt("Build configuration list for PBXNativeTarget Clipboard"),
                Id("016547702E62440700C46AD8"), Id("016547712E62440700C46AD8"),
                Id("016547722E62440700C46AD8"), ClipboardNames,
                <<main_target_uuid>>, ApplicationType)
    \o ShareExtensionTarget(generate_uuid(u + 1), generate_uuid(u + 2),
                            generate_uuid(u + 3), generate_uuid(u + 4),
                            generate_uuid(u + 5), <<generate_uuid(u + 9)>>)

ASE_Phases(u) ==
    SourcesPhase(generate_uuid(u + 3), generate_uuid(u + 8))
    \o FrameworksPhase(generate_uuid(u + 4))
    \o ResourcesPhase(generate_uuid(u + 5), generate_uuid(u + 7), generate_uuid(u + 9))

add_share_extension_target(t, u) ==
    LET m == MainProductSearch(t)
        frag == ASE_Targets(u, t[m])
        c1 == InsertBeforeEnd(t, "PBXNativeTarget", frag)
        c2 == InsertBeforeEnd(c1, "PBXSourcesBuildPhase", ASE_Phases(u))
    IN  IF m = 0 THEN Outcome("False", FALSE, t, <<>>, 9)
        ELSE Outcome("True", TRUE, c2,
                     << Step("PBXNativeTarget", frag, t, c1),
                        Step("PBXSourcesBuildPhase", ASE_Phases(u), c1, c2) >>,
                     9)

\* fix_share_extension()
FSE_Target(u) ==
    ShareExtensionTarget(generate_uuid(u + 1), generate_uuid(u + 2),
                         generate_uuid(u + 3), generate_uuid(u + 4),
                         generate_uuid(u + 5),
                         <<generate_uuid(u + 6), Cmt("ShareExtension.appex")>>)
    \o <<NL>>

\* fix_share_extension without its "already exists" check.
fix_share_extension_unguarded(t, u) ==
    LET i == MainTargetSearch(t)
        g1 == SubSeq(t, i, MainTargetGroup1End(t, i))
        c1 == Replace(t, g1, g1 \o FSE_Target(u))
        j == TargetsListSearch(c1)
        g == SubSeq(c1, j, TargetsListEnd(c1, j))
        c2 == IF j = 0 THEN c1
              ELSE Replace(c1, g, g \o TargetsEntry(generate_uuid(u + 1)))
    IN  IF i = 0 THEN Outcome("False", FALSE, t, <<>>, 9)
        ELSE Outcome("True", TRUE, c2, <<>>, 9)

\* fix_share_extension going on to write when the anchor is not found.
fix_share_extension_nofail(t, u) ==
    LET i == MainTargetSearch(t)
        g1 == SubSeq(t, i, MainTargetGroup1End(t, i))
        c1 == Replace(t, g1, g1 \o FSE_Target(u))
        j == TargetsListSearch(c1)
        g == SubSeq(c1, j, TargetsListEnd(c1, j))
        c2 == IF j = 0 THEN c1
              ELSE Replace(c1, g, g \o TargetsEntry(generate_uuid(u + 1)))
    IN  IF ContainsShareExtension(t) THEN Outcome("True", FALSE, t, <<>>, 0)
        ELSE IF i = 0 THEN Outcome("True", TRUE, t, <<>>, 9)
        ELSE Outcome("True", TRUE, c2, <<>>, 9)

fix_share_extension(t, u) ==
    LET i == MainTargetSearch(t)
        g1 == SubSeq(t, i, MainTargetGroup1End(t, i))
        c1 == Replace(t, g1, g1 \o FSE_Target(u))
        j == TargetsListSearch(c1)
        g == SubSeq(c1, j, TargetsListEnd(c1, j))
        c2 == IF j = 0 THEN c1
              ELSE Replace(c1, g, g \o TargetsEntry(generate_uuid(u + 1)))
    IN  IF ContainsShareExtension(t) THEN Outcome("True", FALSE, t, <<>>, 0)
        ELSE IF i = 0 THEN Outcome("False", FALSE, t, <<>>, 9)
        ELSE Outcome("True", TRUE, c2, <<>>, 9)

\* create_working_project(): b is the text of project.pbxproj.backup.
CWP_Target(u) ==
    ShareExtensionTarget(generate_uuid(u + 1), generate_uuid(u + 2),
                         generate_uuid(u + 5), generate_uuid(u + 6),
                         generate_uuid(u + 7),
                         <<generate_uuid(u + 8), Cmt("ShareExtension.appex")>>)

CWP_Sources(u) == SourcesPhase(generate_uuid(u + 5), generate_uuid(u + 9))
CWP_Frameworks(u) == FrameworksPhase(generate_uuid(u + 6))
CWP_Resources(u) ==
    ResourcesPhase(generate_uuid(u + 7), generate_uuid(u + 10), generate_uuid(u + 11))
CWP_Refs(u) ==
    FileRefs(generate_uuid(u + 8), generate_uuid(u + 9), generate_uuid(u + 10),
             generate_uuid(u + 11), generate_uuid(u + 12))
CWP_ConfigList(u) ==
    ConfigList(generate_uuid(u + 2), generate_uuid(u + 3), generate_uuid(u + 4))
CWP_Configs(u) ==
    DebugConfig(generate_uuid(u + 3)) \o ReleaseConfig(generate_uuid(u + 4))

\* Lines 23-24: remove the broken ShareExtension target.
CWP_Remove(b) == RemoveBrokenRefs(RemoveBrokenBlocks(b))

\* Lines 26-199, applied to the text r2 that the removal left.
CWP_Insert(r2, u) ==
    LET c1 == SubMainTarget(r2, CWP_Target(u))
        c2 == SubTargetsList(c1, TargetsEntry(generate_uuid(u + 1)))
        c3 == SubEndMarker(c2, "PBXSourcesBuildPhase", CWP_Sources(u))
        c4 == SubEndMarker(c3, "PBXFrameworksBuildPhase", CWP_Frameworks(u))
        c5 == SubEndMarker(c4, "PBXResourcesBuildPhase", CWP_Resources(u))
        c6 == SubEndMarker(c5, "PBXFileReference", CWP_Refs(u))
        c7 == SubEndMarker(c6, "XCConfigurationList", CWP_ConfigList(u))
        c8 == SubEndMarker(c7, "XCBuildConfiguration", CWP_Configs(u))
    IN  Outcome("True", TRUE, c8,
                << Step("PBXSourcesBuildPhase", CWP_Sources(u), c2, c3),
                   Step("PBXFrameworksBuildPhase", CWP_Frameworks(u), c3, c4),
                   Step("PBXResourcesBuildPhase", CWP_Resources(u), c4, c5),
                   Step("PBXFileReference", CWP_Refs(u), c5, c6),
                   Step("XCConfigurationList", CWP_ConfigList(u), c6, c7),
                   Step("XCBuildConfiguration", CWP_Configs(u), c7, c8) >>,
                12)

create_working_project(b, u) == CWP_Insert(CWP_Remove(b), u)

\* ---------------------------------------------------------- the input files
\* How the section markers of an input file are written:
\*   "none"     no marker at all
\*   "literal"  /* Begin S section */ ... /* End S section */, each once
\*   "twice"    the literal pair, two times
\*   "wrapped"  the literal pair, each once, inside a pair of lines
\*              "/ Begin S section /" ... "/ End S section /" (the delimiters
\*              written without the asterisks, which the unescaped patterns match)
Styles == {"none", "literal", "twice", "wrapped"}

Section(S, style, body) ==
    LET literal == LitBegin(S) \o <<NL>> \o body \o LitEnd(S) \o <<NL>>
    IN  CASE style = "none" -> body
          [] style = "literal" -> literal
          [] style = "twice" -> literal \o LitBegin(S) \o <<NL>> \o LitEnd(S) \o <<NL>>
          [] style = "wrapped" ->
                <<SL, BeginTok(S), SP, SL, NL>> \o literal
                \o <<SL, EndTok(S), SP, SL, NL>>

\* What the project holds:
\*   "empty"   no target and no targets list
\*   "main"    the Clipboard and ClipboardTests targets and the targets list
\*   "nolist"  the two targets, no targets list
\*   "group"   "main" and a PBXGroup for the ShareExtension folder
\*   "broken"  "main" with the ShareExtension target 60D3E1B9FE0944D0B8BB9668
\*   "nested"  "broken", the ShareExtension target holding a nested { ... };
\*   "bare"    "main", the productReference of Clipboard written without comment
Bodies == {"empty", "main", "nolist", "group", "broken", "nested", "bare"}

MainBlock(body) ==
    TargetBlock(MAIN_TARGET, "Clipboard", Id("0165478A2E62440800C46AD8"),
                Cmt("Build configuration list for PBXNativeTarget Clipboard"),
                Id("016547702E62440700C46AD8"), Id("016547712E62440700C46AD8"),
                Id("016547722E62440700C46AD8"), ClipboardNames,
                IF body = "bare" THEN <<CLIPBOARD_APP>>
                ELSE <<CLIPBOARD_APP, Cmt("Clipboard.app")>>,
                ApplicationType)
    \o <<NL>>

TestsBlock ==
    <<TESTS_TARGET, Cmt("ClipboardTests"), OPEN,
      W("isa = PBXNativeTarget; buildPhases = ( ); dependencies = ( );"),
      W("name = ClipboardTests; productName = ClipboardTests;"), CLOSE, SEMI, NL>>

BrokenBlock(body) ==
    IF body = "nested"
    THEN <<BROKEN_TARGET, Cmt("ShareExtension"), OPEN,
           W("isa = PBXNativeTarget; attributes = {"),
           W("CreatedOnToolsVersion = 16.0;"), CLOSE, SEMI>>
         \o ShareExtensionNames \o <<CLOSE, SEMI, NL>>
    ELSE <<BROKEN_TARGET, Cmt("ShareExtension"), OPEN, W("isa = PBXNativeTarget;")>>
         \o ShareExtensionNames \o <<CLOSE, SEMI, NL>>

Targets(body) ==
    CASE body = "empty" -> <<>>
      [] body \in {"broken", "nested"} ->
            MainBlock(body) \o BrokenBlock(body) \o TestsBlock
      [] OTHER -> MainBlock(body) \o TestsBlock

TargetsList(body) ==
    CASE body \in {"empty", "nolist"} -> <<>>
      [] body \in {"broken", "nested"} ->
            <<W("targets = ("), NL, MAIN_TARGET, Cmt("Clipboard"), COMMA,
              NL, BROKEN_TARGET, Cmt("ShareExtension"), COMMA,
              NL, TESTS_TARGET, Cmt("ClipboardTests"), COMMA, W("); mainGroup = 016547682E62440700C46AD8;"), NL>>
      [] OTHER ->
            <<W("targets = ("), NL, MAIN_TARGET, Cmt("Clipboard"), COMMA,
              NL, TESTS_TARGET, Cmt("ClipboardTests"), COMMA, W("); mainGroup = 016547682E62440700C46AD8;"), NL>>

Group(body) ==
    IF body = "group"
    THEN <<Id("0165479A2E62440800C46AD8"), Cmt("ShareExtension"), OPEN,
           W("isa = PBXGroup; children = ( );"),
           W("path = ShareExtension; sourceTree = <group>;"), CLOSE, SEMI, NL>>
    ELSE <<>>

ExistingRefs(body) ==
    IF body = "empty" THEN <<>>
    ELSE FileRef(CLIPBOARD_APP, "Clipboard.app",
                 "isa = PBXFileReference; explicitFileType = wrapper.application; sourceTree = BUILT_PRODUCTS_DIR;")
         \o <<NL>>

\* The first and the last lines of every project file.
Header == <<W("archiveVersion = 1; objectVersion = 77; objects = {"), NL>>
Footer == <<CLOSE, SEMI, W("rootObject = 016547692E62440700C46AD8;"), CLOSE, NL>>

ProjectText(style, body) ==
    Header
    \o Section("PBXFileReference", style, ExistingRefs(body))
    \o Section("PBXFrameworksBuildPhase", style, <<>>)
    \o Group(body)
    \o Section("PBXNativeTarget", style, Targets(body))
    \o TargetsList(body)
    \o Section("PBXResourcesBuildPhase", style, <<>>)
    \o Section("PBXSourcesBuildPhase", style, <<>>)
    \o Section("XCBuildConfiguration", style, <<>>)
    \o Section("XCConfigurationList", style, <<>>)
    \o Footer

InputFiles == { ProjectText(style, body) : style \in Styles, body \in Bodies }

\* ------------------------------------------------------------ the state machine
\* file     the text of Clipboard.xcodeproj/project.pbxproj
\* backup   the text of project.pbxproj.backup, the copy taken before patching
\* pc       "idle", "computed" (text patched in memory, file not yet opened),
\*          "opened" (file opened with 'w', being written), "crashed"
\* script   the script of the current (or last) run
\* content  the text the run computed
\* pre      the text of the file when the run started
\* ret      "none", "running", "True", "False" or "crashed"
\* wrote    the run opened the file for writing
\* steps    the section insertions of the run
\* uuids    how many uuids generate_uuid has made
\* ubase       how many it had made when the run started
\* runs     how many runs were started
\* written  how many chunks of content the open file has received
\* hist     the completed runs, in order
Init ==
    /\ file \in InputFiles
    /\ backup = file
    /\ pc = "idle"
    /\ script = "none"
    /\ content = <<>>
    /\ pre = file
    /\ ret = "none"
    /\ wrote = FALSE
    /\ steps = <<>>
    /\ uuids = 0
    /\ ubase = 0
    /\ runs = 0
    /\ written = 0
    /\ hist = <<>>

Done(s, p, post, r, w, u) ==
    [script |-> s, pre |-> p, post |-> post, ret |-> r, wrote |-> w, u0 |-> u]

\* A run from its start to the point where it returns without writing or is
\* about to open the file for writing.
Start(s, r) ==
    /\ pc = "idle"
    /\ runs < MaxRuns
    /\ runs' = runs + 1
    /\ script' = s
    /\ pre' = file
    /\ content' = r.out
    /\ steps' = r.steps
    /\ uuids' = uuids + r.used
    /\ ubase' = uuids
    /\ wrote' = FALSE
    /\ written' = 0
    /\ IF r.write
       THEN /\ pc' = "computed"
            /\ ret' = "running"
            /\ hist' = hist
       ELSE /\ pc' = "idle"
            /\ ret' = r.ret
            /\ hist' = Append(hist, Done(s, file, file, r.ret, FALSE, uuids))
    /\ UNCHANGED <<file, backup>>

RunFixBuildConfig == Start("fix_build_config", fix_build_config(file))

RunCompleteShareExtension ==
    Start("complete_share_extension", complete_share_extension(file, uuids))

RunAddShareExtension ==
    Start("add_share_extension", add_share_extension_target(file, uuids))

RunFixShareExtension == Start("fix_share_extension", fix_share_extension(file, uuids))

\* create_working_project reading the project file instead of its backup.
RunCreateWorkingProject_fromFile ==
    Start("create_working_project", create_working_project(file, uuids))

RunCreateWorkingProject ==
    Start("create_working_project", create_working_project(backup, uuids))

\* Opening a temporary file instead, the project file kept until a rename.
OpenForWrite_keep ==
    /\ pc = "computed"
    /\ pc' = "opened"
    /\ file' = file
    /\ wrote' = TRUE
    /\ UNCHANGED <<backup, script, content, pre, ret, steps, uuids, ubase, runs, written, hist>>

\* with open(project_file, 'w') as f: the file is truncated in place.
OpenForWrite ==
    /\ pc = "computed"
    /\ pc' = "opened"
    /\ file' = <<>>
    /\ wrote' = TRUE
    /\ UNCHANGED <<backup, script, content, pre, ret, steps, uuids, ubase, runs, written, hist>>

\* f.write(content): the text reaches the file chunk by chunk; after the last
\* chunk the file is closed, the script prints its message and returns True.
WriteChunk ==
    /\ pc = "opened"
    /\ written < WriteChunks
    /\ written' = written + 1
    /\ file' = SubSeq(content, 1, (Len(content) * (written + 1)) \div WriteChunks)
    /\ IF written + 1 = WriteChunks
       THEN /\ pc' = "idle"
            /\ ret' = "True"
            /\ hist' = Append(hist, Done(script, pre, content, "True", TRUE, ubase))
       ELSE UNCHANGED <<pc, ret, hist>>
    /\ UNCHANGED <<backup, script, content, pre, wrote, steps, uuids, ubase, runs>>

\* The process dies between two steps of a run.
Crash ==
    /\ pc \in {"computed", "opened"}
    /\ pc' = "crashed"
    /\ ret' = "crashed"
    /\ UNCHANGED <<file, backup, script, content, pre, wrote, steps, uuids, ubase,
                   runs, written, hist>>

Next ==
    \/ RunFixBuildConfig
    \/ RunCompleteShareExtension
    \/ RunAddShareExtension
    \/ RunFixShareExtension
    \/ RunCreateWorkingProject
    \/ OpenForWrite
    \/ WriteChunk
    \/ Crash

Spec == Init /\ [][Next]_vars

\* ------------------------------------------------------------------ claims
FBC == "fix_build_config"
CSE == "complete_share_extension"
ASE == "add_share_extension"
FSE == "fix_share_extension"
CWP == "create_working_project"

\* A run has returned (it did not crash) and no other run has started since.
Completed == pc = "idle" /\ runs > 0

\* The literal marker comments of section S occur exactly once each in t.
MarkersOnce(t, S) == Count(t, LitBegin(S)) = 1 /\ Count(t, LitEnd(S)) = 1

\* out is inp with the fragment (and the newline the scripts put after it)
\* just before the literal End marker of S, everything else in place.
SplicedBeforeEnd(inp, S, frag, out) ==
    LET e == Find(inp, LitEnd(S), 1)
        before == SubSeq(inp, 1, e - 1)
        rest == SubSeq(inp, e, Len(inp))
    IN  out \in { before \o frag \o rest, before \o frag \o <<NL>> \o rest }

\* C1: in every section insertion of a run whose input text holds the literal
\* Begin and End marker comments of the section exactly once each, the output
\* is the input with the step's fragment just before the End marker and all
\* other text unchanged and in the same order.
C1_SectionSplice ==
    \A k \in 1..Len(steps) :
        MarkersOnce(steps[k].inp, steps[k].sec)
        => SplicedBeforeEnd(steps[k].inp, steps[k].sec, steps[k].frag, steps[k].out)

\* The pairs of consecutive completed runs of script s.
Pairs(s) == { k \in 1..(Len(hist) - 1) : hist[k].script = s /\ hist[k + 1].script = s }

\* C2 as stated: of two runs of fix_share_extension in a row, the second leaves
\* the file as the first left it, finds the fragment present, returns True and
\* does not write.
C2_SecondRunSkips ==
    \A k \in Pairs(FSE) :
        /\ hist[k + 1].post = hist[k].post
        /\ hist[k + 1].ret = "True"
        /\ ~hist[k + 1].wrote

\* C2 as amended: of two runs of fix_share_extension in a row, the second leaves
\* the file as the first left it and does not write; when the first returned
\* True the file holds "ShareExtension" and the second returns True; when the
\* first returned False (anchor not found) the second returns False again.
C2_Idempotent ==
    \A k \in Pairs(FSE) :
        /\ hist[k + 1].post = hist[k].post
        /\ ~hist[k + 1].wrote
        /\ hist[k].ret = "True"
           => ContainsShareExtension(hist[k].post) /\ hist[k + 1].ret = "True"
        /\ hist[k].ret = "False" => hist[k + 1].ret = "False"

C2_Witness ==
    \E k \in Pairs(FSE) :
        /\ hist[k].wrote
        /\ hist[k].post # hist[k].pre
        /\ hist[k + 1].ret = "True"
        /\ ~hist[k + 1].wrote

\* The fragments a run of an unguarded script inserts: r is the record of the run.
Fragments(r) ==
    CASE r.script = FBC -> <<build_config_list, share_extension_configs>>
      [] r.script = CSE -> <<CSE_Phases(r.u0), CSE_Refs(r.u0), CSE_Configs(r.u0)>>
      [] r.script = ASE ->
            IF MainProductSearch(r.pre) = 0 THEN <<>>
            ELSE <<ASE_Targets(r.u0, r.pre[MainProductSearch(r.pre)]), ASE_Phases(r.u0)>>
      [] OTHER -> <<>>

Unguarded == {FBC, CSE, ASE}

\* The run r put (at least) one more copy of its k-th fragment into the file.
Inserted(r, k) == Count(r.post, Fragments(r)[k]) > Count(r.pre, Fragments(r)[k])

\* C3: when a script without a presence check (fix_build_config,
\* complete_share_extension, add_share_extension) runs twice in a row and the
\* first run inserted a fragment, the second run inserts its fragment again:
\* the copy of the first run stays, a second one is added, and the file after
\* two runs differs from the file after one.
C3_RerunDuplicates ==
    \A s \in Unguarded : \A k \in Pairs(s) :
        \A n \in 1..Len(Fragments(hist[k])) :
            Inserted(hist[k], n)
            => /\ n <= Len(Fragments(hist[k + 1]))
               /\ Inserted(hist[k + 1], n)
               /\ Count(hist[k + 1].post, Fragments(hist[k])[n])
                     >= Count(hist[k].post, Fragments(hist[k])[n])
                        + (IF Fragments(hist[k])[n] = Fragments(hist[k + 1])[n]
                           THEN 1 ELSE 0)
               /\ hist[k + 1].post # hist[k].post

C3_Witness ==
    \E s \in Unguarded : \E k \in Pairs(s) :
        /\ Fragments(hist[k]) # <<>>
        /\ \A n \in 1..Len(Fragments(hist[k])) :
              /\ Inserted(hist[k], n)
              /\ Inserted(hist[k + 1], n)
        /\ hist[k + 1].post # hist[k].post
        /\ file = hist[k + 1].post

\* The sections whose marker pair a script looks for.
ScriptSections(s) ==
    CASE s = FBC -> {"XCConfigurationList", "XCBuildConfiguration"}
      [] s = CSE -> {"PBXSourcesBuildPhase", "PBXFileReference", "XCBuildConfiguration"}
      [] s = ASE -> {"PBXNativeTarget", "PBXSourcesBuildPhase"}
      [] OTHER -> {}

\* No marker comment of the script's sections, and not its anchor, is in t.
NothingToFind(s, t) ==
    /\ \A S \in ScriptSections(s) : ~Occurs(t, LitBegin(S)) /\ ~Occurs(t, LitEnd(S))
    /\ s = FSE => MainTargetSearch(t) = 0
    /\ s = ASE => MainProductSearch(t) = 0

\* C4: when a run of fix_build_config, complete_share_extension,
\* add_share_extension or fix_share_extension has returned and the file held,
\* at its start, none of the marker comments and not the anchor the script
\* looks for, the file holds what it held at the start of the run.
C4_AbsentMarkersUnchanged ==
    (Completed /\ script \in {FBC, CSE, ASE, FSE} /\ NothingToFind(script, pre))
    => file = pre

C4_Witness ==
    /\ Completed
    /\ script = FBC
    /\ NothingToFind(FBC, pre)
    /\ wrote
    /\ file = pre

\* C5: a run returns True only if, for every section it patches, the literal
\* Begin and End marker comments were in the text it patched exactly once each.
C5_SuccessImpliesMarkersOnce ==
    (Completed /\ ret = "True")
    => \A k \in 1..Len(steps) : MarkersOnce(steps[k].inp, steps[k].sec)

\* C6: in every section insertion whose input text holds the literal Begin and
\* End marker comments of the section exactly once each, the output is longer
\* than the input by the inserted text (the fragment, with or without the
\* newline the scripts put after it) and by nothing else.
C6_SpliceLength ==
    \A k \in 1..Len(steps) :
        MarkersOnce(steps[k].inp, steps[k].sec)
        => Len(steps[k].out) - Len(steps[k].inp)
              \in { Len(steps[k].frag), Len(steps[k].frag) + 1 }

\* The run looked for its anchor in t and did not find it.
AnchorNotFound(s, t) ==
    \/ s = FSE /\ ~ContainsShareExtension(t) /\ MainTargetSearch(t) = 0
    \/ s = ASE /\ MainProductSearch(t) = 0

\* C7: a run of fix_share_extension or add_share_extension that looks for its
\* anchor and does not find it returns False at once: it never reaches the
\* point where the file is opened for writing, and the file is unchanged.
C7_PatternNotFound ==
    (runs > 0 /\ AnchorNotFound(script, pre))
    => /\ pc = "idle"
       /\ ret = "False"
       /\ ~wrote
       /\ file = pre

C7_Witness ==
    /\ Completed
    /\ script = FSE
    /\ AnchorNotFound(FSE, pre)
    /\ ret = "False"

\* The part of content that the open file has received.
WrittenPart == SubSeq(content, 1, (Len(content) * written) \div WriteChunks)

\* C8: until a run opens the file for writing, also when it crashes before, the
\* file holds what it held at the start of the run; from then on the file
\* itself, truncated, receives the text, so that a crash before the last chunk
\* leaves in it a part of the patched text that is not the whole of it.
C8_NonAtomicOverwrite ==
    /\ (pc = "computed" \/ (pc = "crashed" /\ ~wrote)) => file = pre
    /\ (pc = "opened" \/ (pc = "crashed" /\ wrote))
       => /\ written < WriteChunks
          /\ file = WrittenPart
          /\ file # content

C8_Witness ==
    /\ pc = "crashed"
    /\ wrote
    /\ file # pre
    /\ file # content
    /\ file # <<>>

\* t holds the definition block of a native target named ShareExtension.
HasShareExtensionTarget(t) ==
    \E i \in 1..(Len(t) - 3) :
        /\ t[i][1] = "id"
        /\ t[i + 1] = Cmt("ShareExtension")
        /\ t[i + 2] = OPEN
        /\ t[i + 3] \in { W("isa = PBXNativeTarget;"),
                          W("isa = PBXNativeTarget; attributes = {") }

\* C9: fix_share_extension returns True without writing ("ShareExtension target
\* already exists!") only when the file holds the definition block of a
\* ShareExtension native target.
C9_GuardSound ==
    (Completed /\ script = FSE /\ ret = "True" /\ ~wrote)
    => HasShareExtensionTarget(pre)

\* The index of the "}" that closes the block whose body starts at j, depth
\* braces being open there; 0 when the text ends first.
RECURSIVE MatchClose(_, _, _)
MatchClose(t, j, depth) ==
    IF j > Len(t) THEN 0
    ELSE IF t[j] = CLOSE
         THEN IF depth = 1 THEN j ELSE MatchClose(t, j + 1, depth - 1)
    ELSE IF HasBrace(t[j]) THEN MatchClose(t, j + 1, depth + 1)
    ELSE MatchClose(t, j + 1, depth)

\* t without the definition blocks headed by
\* 60D3E1B9FE0944D0B8BB9668 /* ShareExtension */, each taken from its header
\* through the "};" that closes it and the whitespace after.
RECURSIVE RemoveWholeBlocks(_)
RemoveWholeBlocks(t) ==
    LET i == Find(t, <<BROKEN_TARGET, Cmt("ShareExtension"), OPEN>>, 1)
        c == MatchClose(t, i + 3, 1)
        last == IF c + 1 <= Len(t) /\ t[c + 1] = SEMI THEN c + 1 ELSE c
    IN  IF i = 0 THEN t
        ELSE IF c = 0 THEN t
        ELSE SubSeq(t, 1, i - 1)
             \o RemoveWholeBlocks(SubSeq(t, SkipSpace(t, last + 1), Len(t)))

\* C10: after a run of create_working_project the file holds no
\* "60D3E1B9FE0944D0B8BB9668 /* ShareExtension */", and it is what the
\* insertions make of the backup with every block headed by that identifier
\* removed whole and every list reference to it removed.
C10_BrokenTargetRemoved ==
    (Completed /\ script = CWP)
    => /\ ~Occurs(file, <<BROKEN_TARGET, Cmt("ShareExtension")>>)
       /\ file = CWP_Insert(RemoveBrokenRefs(RemoveWholeBlocks(backup)), ubase).out

\* The names of the blocks the ShareExtension fragments define.
FragmentNames ==
    { "ShareExtension", "Sources", "Frameworks", "Resources", "Clipboard.app",
      "ShareExtension.appex", "ShareViewController.swift",
      "MainInterface.storyboard", "ShareExtensionIcon.png", "Info.plist",
      "Build configuration list for PBXNativeTarget ShareExtension",
      "Debug", "Release" }

\* How many definition blocks named c, and how many list entries
\* "<id> /* ShareExtension */," the text t holds.
BlockCount(t, c) ==
    Cardinality({ i \in 1..(Len(t) - 2) :
                    t[i][1] = "id" /\ t[i + 1] = Cmt(c) /\ t[i + 2] = OPEN })

EntryCount(t) ==
    Cardinality({ i \in 1..(Len(t) - 2) :
                    /\ t[i][1] = "id"
                    /\ t[i + 1] = Cmt("ShareExtension")
                    /\ t[i + 2] = COMMA })

SameFragmentCounts(t1, t2) ==
    /\ EntryCount(t1) = EntryCount(t2)
    /\ \A c \in FragmentNames : BlockCount(t1, c) = BlockCount(t2, c)

\* The completed runs of create_working_project that follow one another from
\* run k on (k itself included).
RECURSIVE ConsecutiveFrom(_)
ConsecutiveFrom(k) ==
    IF k < Len(hist) /\ hist[k + 1].script = CWP
    THEN {k} \cup ConsecutiveFrom(k + 1) ELSE {k}

\* C11: no step of a run of create_working_project changes the backup; the text
\* a completed run of create_working_project wrote is what the script makes of
\* the backup and of the identifiers generated in that run, whatever the
\* project file held; and after any number of consecutive runs the file holds as
\* many ShareExtension blocks of each kind, and as many targets-list entries,
\* as after the first of them.
C11_NoAccumulation ==
    /\ [][script' = CWP => backup' = backup]_vars
    /\ [](\A k \in 1..Len(hist) : hist[k].script = CWP =>
            /\ hist[k].post = create_working_project(backup, hist[k].u0).out
            /\ \A j \in ConsecutiveFrom(k) :
                  SameFragmentCounts(hist[j].post, hist[k].post))

C11_Witness ==
    \E k \in Pairs(CWP) :
        /\ hist[k].pre # hist[k].post
        /\ hist[k + 1].pre = hist[k].post
        /\ hist[k + 1].pre # backup
        /\ BlockCount(hist[k].post, "Sources") = 1
        /\ BlockCount(hist[k + 1].post, "Sources") = 1
        /\ EntryCount(hist[k + 1].post) = 1
        /\ file = hist[k + 1].post

\* The identifier id heads a definition block of t: "<id> /* name */ = {".
Defines(t, id) ==
    \E i \in 1..(Len(t) - 2) :
        t[i] = id /\ t[i + 1][1] = "cmt" /\ t[i + 2] = OPEN

\* The identifiers the target block of a run of create_working_project
\* refers to, u uuids having been drawn before the run: buildConfigurationList,
\* the Sources, Frameworks and Resources phases, productReference.
CWP_TargetRefs(u) ==
    { generate_uuid(u + 2), generate_uuid(u + 5), generate_uuid(u + 6),
      generate_uuid(u + 7), generate_uuid(u + 8) }

\* C12: when create_working_project has written a file that holds the
\* ShareExtension target block of the run, each identifier the block refers to
\* heads a definition block of the file, the Debug and Release identifiers of
\* the run's configuration list, when the list is in the file, head definition
\* blocks of the file too, and the file holds the targets-list entry
\* "<target id> /* ShareExtension */,".
C12_ReferentialIntegrity ==
    (Completed /\ script = CWP /\ Occurs(file, CWP_Target(ubase)))
    => /\ \A id \in CWP_TargetRefs(ubase) : Defines(file, id)
       /\ Occurs(file, CWP_ConfigList(ubase))
          => /\ Defines(file, generate_uuid(ubase + 3))
             /\ Defines(file, generate_uuid(ubase + 4))
       /\ Occurs(file, TargetsEntry(generate_uuid(ubase + 1)))

\* C13: when fix_share_extension has written the file and returned True, the
\* file holding the ShareExtension target block of the run, the file also holds
\* the targets-list entry "<target id> /* ShareExtension */," with the
\* identifier of that block.
C13_TargetWithEntry ==
    (Completed /\ script = FSE /\ ret = "True" /\ wrote
        /\ Occurs(file, FSE_Target(ubase)))
    => Occurs(file, TargetsEntry(generate_uuid(ubase + 1)))

\* The indices of t where a definition block is headed: "<id> /* name */ = {".
Heads(t) ==
    { i \in 1..(Len(t) - 2) :
        t[i][1] = "id" /\ t[i + 1][1] = "cmt" /\ t[i + 2] = OPEN }

\* Every identifier heads at most one definition block of t.
UniqueDefinitions(t) ==
    \A i, j \in Heads(t) : t[i] = t[j] => i = j

\* The text a completed run r read: the backup for create_working_project, the
\* project file for the other scripts.
InputOf(r) == IF r.script = CWP THEN backup ELSE r.pre

\* C14: when a run of add_share_extension, complete_share_extension or
\* create_working_project has returned True and every identifier headed at
\* most one definition block in the text the run read, every identifier heads
\* at most one definition block in the text the run left in the file.
C14_UniqueDefinitionsPreserved ==
    \A k \in 1..Len(hist) :
        (hist[k].script \in {ASE, CSE, CWP} /\ hist[k].ret = "True"
            /\ UniqueDefinitions(InputOf(hist[k])))
        => UniqueDefinitions(hist[k].post)

====
